---- MODULE Spec2Model ----
(***************************************************************************)
(* MRphy: the compact spin-population objects (mrphy/mobjs.py) and the     *)
(* Bloch simulators (mrphy/slowsims.py).                                    *)
(*                                                                          *)
(* A tensor is a record [shape, strides, store, buf]: `store` is the flat   *)
(* storage, element idx (0-based multi-index) lives at                      *)
(* store[1 + SUM idx[d]*strides[d]].  `buf` names the buffer: "new" for a  *)
(* buffer the operation allocated, "arg" for a caller's tensor, and the    *)
(* slot name for a buffer an object holds.  Views keep the buffer of the   *)
(* tensor they view; copies are new buffers.                                *)
(***************************************************************************)
EXTENDS Integers, Sequences, FiniteSets, TLC

VARIABLES sa, cube, ctor, op, err, nops, emb, cr, sim

vars == <<sa, cube, ctor, op, err, nops, emb, cr, sim>>

(* ------------------------------ bounds --------------------------------- *)
\* batch sizes N range over 1..MaxN
MaxN == 2
\* every spatial axis has 1..MaxNx points
MaxNx == 2
\* attribute operations after construction in one behaviour
MaxOps == 1
\* index lists of an indexing expression have 1..MaxL entries
MaxL == 2
\* Beff has 0..MaxT time points
MaxT == 2

(* ----------------------------- constants ------------------------------- *)
\* float('NaN'), the fill of SpinArray.embed
NaN == -1
\* xyz
XYZ == 3

None == [none |-> TRUE]
\* an optional argument that is given
Some(x) == [none |-> FALSE, val |-> x]

(* ------------------------- tensors (torch) ----------------------------- *)
RECURSIVE Prod(_)
Prod(s) == IF s = <<>> THEN 1 ELSE Head(s) * Prod(Tail(s))

RECURSIVE Dot(_, _)
Dot(a, b) == IF a = <<>> THEN 0 ELSE Head(a) * Head(b) + Dot(Tail(a), Tail(b))

\* strides of a freshly allocated (contiguous, row-major) tensor
RECURSIVE ContigStrides(_)
ContigStrides(shape) ==
    IF shape = <<>> THEN <<>>
    ELSE <<Prod(Tail(shape))>> \o ContigStrides(Tail(shape))

\* multi-index of the k-th element (0-based) in row-major order
RECURSIVE Unravel(_, _)
Unravel(k, shape) ==
    IF shape = <<>> THEN <<>>
    ELSE <<k \div Prod(Tail(shape))>> \o Unravel(k % Prod(Tail(shape)), Tail(shape))

DropFirst(s, n) == SubSeq(s, n + 1, Len(s))

Offset(t, idx) == Dot(idx, t.strides)
At(t, idx) == t.store[Offset(t, idx) + 1]
Numel(t) == Prod(t.shape)

\* the logical contents, row-major
Flat(t) == [k \in 1..Numel(t) |-> At(t, Unravel(k - 1, t.shape))]

\* torch.tensor(data).reshape(shape): a new buffer
Fresh(shape, data) ==
    [shape |-> shape, strides |-> ContigStrides(shape), store |-> data,
     buf |-> "new"]

\* Tensor.clone()
Clone(t) == Fresh(t.shape, Flat(t))

IsContiguous(t) ==
    \/ Numel(t) = 0
    \/ \A d \in 1..Len(t.shape) :
        t.shape[d] = 1 \/ t.strides[d] = ContigStrides(t.shape)[d]

\* expand that returns its input as it is
ExpandNot(t, target) == t

\* Tensor.expand(target): fails unless every dimension, aligned from the
\* right, is 1 or equal to the target's; broadcast dimensions get stride 0.
CanExpand(shape, target) ==
    /\ Len(shape) <= Len(target)
    /\ \A d \in 1..Len(shape) :
          LET td == d + Len(target) - Len(shape)
          IN  shape[d] = target[td] \/ shape[d] = 1

Expand(t, target) ==
    LET off == Len(target) - Len(t.shape)
    IN  [shape   |-> target,
         strides |-> [d \in 1..Len(target) |->
                         IF d <= off THEN 0
                         ELSE IF t.shape[d - off] = 1 /\ target[d] # 1 THEN 0
                         ELSE t.strides[d - off]],
         store   |-> t.store,
         buf     |-> t.buf]

\* Tensor.view((-1,)+shape[2:]): the two leading dimensions merged.  A view
\* exists only if the strides allow it; tensors of fewer than 2 dimensions
\* are flattened.
CanViewFlat(t) ==
    \/ Len(t.shape) < 2
    \/ Numel(t) = 0
    \/ t.shape[1] = 1
    \/ t.shape[2] = 1
    \/ t.strides[1] = t.shape[2] * t.strides[2]

ViewFlat(t) ==
    IF Len(t.shape) = 0
    THEN [shape |-> <<1>>, strides |-> <<1>>, store |-> t.store, buf |-> t.buf]
    ELSE IF Len(t.shape) = 1 THEN t
    ELSE [shape   |-> <<t.shape[1] * t.shape[2]>> \o DropFirst(t.shape, 2),
          strides |-> <<IF t.shape[2] = 1 THEN t.strides[1] ELSE t.strides[2]>>
                      \o DropFirst(t.strides, 2),
          store   |-> t.store,
          buf     |-> t.buf]

\* Tensor.reshape(lead + shape[2:]) where Prod(lead) = shape[1]*shape[2] and
\* lead[1] = shape[1]: dimension 2 is split, which the strides always
\* allow, so reshape returns a view on the same store.
ReshapeSplit(t, lead) ==
    [shape   |-> lead \o DropFirst(t.shape, 2),
     strides |-> <<t.strides[1]>>
                 \o [d \in 1..(Len(lead) - 1) |->
                        ContigStrides(Tail(lead))[d] * t.strides[2]]
                 \o DropFirst(t.strides, 2),
     store   |-> t.store,
     buf     |-> t.buf]

\* the elements of data whose flag in keep is TRUE, in order: v[mask]
RECURSIVE Gather(_, _, _)
Gather(data, keep, k) ==
    IF k > Len(data) THEN <<>>
    ELSE (IF keep[k] THEN <<data[k]>> ELSE <<>>) \o Gather(data, keep, k + 1)

\* number of TRUE flags among keep[1..k]
RECURSIVE Rank(_, _)
Rank(keep, k) ==
    IF k = 0 THEN 0 ELSE Rank(keep, k - 1) + (IF keep[k] THEN 1 ELSE 0)

Ok(v) == [ok |-> TRUE, val |-> v]
Raise == [ok |-> FALSE, val |-> None]

(* ----------------------------- SpinArray -------------------------------- *)
SpinArray_readonly == {"shape", "mask", "device", "dtype", "ndim", "nM"}
SpinArray_compact == {"T1_", "T2_", "gamma_", "M_"}
SpinArray_slots == SpinArray_readonly \cup SpinArray_compact

\* self.mask.expand(self.shape), laid over a tensor of shape
\* self.shape + trailing and flattened: flag of every element
MaskFlags(self, trailing) ==
    LET T == Prod(trailing)
        P == Prod(Tail(self.shape))
    IN  [k \in 1..(self.shape[1] * P * T) |-> self.mask[(((k - 1) \div T) % P) + 1]]

\* SpinArray.extract(v), out_ = None; v.shape[:ndim] == shape is required by
\* the boolean indexing v[mask]
extract(self, v) ==
    LET trailing == DropFirst(v.shape, self.ndim)
    IN  IF Len(v.shape) < self.ndim \/ SubSeq(v.shape, 1, self.ndim) # self.shape
        THEN Raise
        ELSE Ok(Fresh(<<self.shape[1], self.nM>> \o trailing,
                      Gather(Flat(v), MaskFlags(self, trailing), 1)))

\* embed with the batch offset of the scatter lost: every batch element
\* receives the values of batch element 0
embed_batch0(self, v_) ==
    LET trailing == DropFirst(v_.shape, 2)
        oshape   == self.shape \o trailing
        flags    == MaskFlags(self, trailing)
        count    == self.shape[1] * self.nM
        T        == Prod(trailing)
    IN  IF ~CanViewFlat(v_) THEN Raise
        ELSE LET src == ViewFlat(v_)
                 L   == src.shape[1]
                 val == Flat(src)
             IN  IF L # count /\ L # 1 THEN Raise
                 ELSE Ok(Fresh(oshape,
                        [k \in 1..Prod(oshape) |->
                            IF ~flags[k] THEN NaN
                            ELSE IF L = count
                            THEN val[((Rank(flags, k) - 1) % (self.nM * T)) + 1]
                            ELSE val[((k - 1) % T) + 1]]))

\* SpinArray.embed(v_), out = None
embed(self, v_) ==
    LET trailing == DropFirst(v_.shape, 2)
        oshape   == self.shape \o trailing
        flags    == MaskFlags(self, trailing)
        count    == self.shape[1] * self.nM
        T        == Prod(trailing)
    IN  IF ~CanViewFlat(v_) THEN Raise
        ELSE LET src == ViewFlat(v_)
                 L   == src.shape[1]
                 val == Flat(src)
             IN  \* out[mask] = src: src is broadcast to (count,)+trailing
                 IF L # count /\ L # 1 THEN Raise
                 ELSE Ok(Fresh(oshape,
                        [k \in 1..Prod(oshape) |->
                            IF ~flags[k] THEN NaN
                            ELSE IF L = count THEN val[Rank(flags, k)]
                            ELSE val[((k - 1) % T) + 1]]))

\* the (N, nM, xyz) / (N, nM) shapes of SpinArray.__setattr__
ShapeM_(self) == <<self.shape[1], self.nM, XYZ>>
ShapeC_(self) == <<self.shape[1], self.nM>>

\* super().__setattr__(k, v): slot k now holds the tensor (and its buffer)
Bind(self, k, v) == [self EXCEPT ![k] = [v EXCEPT !.buf = k]]

\* the assertion left out
SpinArray_assert_nothing(k_) == TRUE

\* assert (k_ not in self._readonly)
SpinArray_assert_readonly(k_) == k_ \notin SpinArray_readonly

\* SpinArray.__setattr__(k_, v_): the object after the call, or Raise
SpinArray_setattr(self, k_, v_) ==
    IF ~SpinArray_assert_readonly(k_) THEN Raise
    ELSE
    LET isDense == (k_ \o "_") \in SpinArray_compact
        shapeOk == /\ Len(v_.shape) >= self.ndim
                   /\ SubSeq(v_.shape, 1, self.ndim) = self.shape
        ex == IF isDense THEN extract(self, v_) ELSE Ok(v_)
        k1 == IF isDense THEN k_ \o "_" ELSE k_
    IN  IF isDense /\ ~shapeOk THEN Raise
        ELSE IF k1 = "M_"
        THEN IF ex.val.shape = ShapeM_(self)
             THEN Ok(Bind(self, k1, ex.val))
             ELSE IF CanExpand(ex.val.shape, ShapeM_(self))
             THEN Ok(Bind(self, k1, Clone(Expand(ex.val, ShapeM_(self)))))
             ELSE Raise
        ELSE IF k1 \in SpinArray_compact
        THEN IF CanExpand(ex.val.shape, ShapeC_(self))
             THEN Ok(Bind(self, k1, Expand(ex.val, ShapeC_(self))))
             ELSE Raise
        ELSE IF k1 \in SpinArray_slots
        THEN Ok(Bind(self, k1, ex.val))
        ELSE Raise

\* SpinArray.__getattr__(k): the dense value of a compact attribute
SpinArray_getattr(self, k) ==
    IF (k \o "_") \notin SpinArray_compact THEN Raise
    ELSE LET v_ == self[k \o "_"]
         IN  IF self.nM # Prod(Tail(self.shape))
             THEN embed(self, v_)
             ELSE Ok(ReshapeSplit(v_, self.shape))

\* the compact-index table of SpinArray.crds_: m = -1 everywhere, then
\* m[mask] = arange(nM); flat over *Nd
CompactIndexTable(self) ==
    [p \in 1..Len(self.mask) |->
        IF self.mask[p] THEN Rank(self.mask, p) - 1 ELSE -1]

\* the length index lists broadcast to: every list has it or has 1 entry
BroadcastLen(lists) ==
    IF \E d \in 1..Len(lists) : Len(lists[d]) # 1
    THEN Len(lists[CHOOSE d \in 1..Len(lists) : Len(lists[d]) # 1])
    ELSE 1

CanBroadcast(lists) ==
    \A d \in 1..Len(lists) : Len(lists[d]) \in {1, BroadcastLen(lists)}

\* the n-th (1-based) multi-index a tuple of index lists addresses
IndexAt(lists, n) ==
    [d \in 1..Len(lists) |-> IF Len(lists[d]) = 1 THEN lists[d][1] ELSE lists[d][n]]

\* t[lists], integer-list ("advanced") indexing of the leading dimensions:
\* the addressed elements (sub-arrays flattened) in order, or Raise
AdvIndex(t, lists) ==
    IF \/ Len(lists) > Len(t.shape)
       \/ ~CanBroadcast(lists)
       \/ \E d \in 1..Len(lists) : \E n \in 1..Len(lists[d]) :
             lists[d][n] < 0 \/ lists[d][n] >= t.shape[d]
    THEN Raise
    ELSE LET rest == DropFirst(t.shape, Len(lists))
             T == Prod(rest)
             L == BroadcastLen(lists)
         IN  Ok([c \in 1..(L * T) |->
                    At(t, IndexAt(lists, ((c - 1) \div T) + 1)
                              \o Unravel((c - 1) % T, rest))])

\* keep the entries that are not -1
RECURSIVE DropMinus1(_)
DropMinus1(l) ==
    IF l = <<>> THEN <<>>
    ELSE (IF Head(l) # -1 THEN <<Head(l)>> ELSE <<>>) \o DropMinus1(Tail(l))

\* SpinArray.crds_(crds): crds is a list of index lists
crds_(self, crds) ==
    IF Len(crds) < self.ndim THEN Raise
    ELSE LET m == [shape |-> <<1>> \o Tail(self.shape),
                   strides |-> ContigStrides(<<1>> \o Tail(self.shape)),
                   store |-> CompactIndexTable(self), buf |-> "new"]
             r == AdvIndex(m, <<(<<0>>)>> \o SubSeq(crds, 2, self.ndim))
         IN  IF ~r.ok THEN Raise
             ELSE Ok(<<crds[1], DropMinus1(r.val)>> \o DropFirst(crds, self.ndim))

\* default arguments of SpinArray.__init__
T1G == Fresh(<<1, 1>>, <<7>>)
T2G == Fresh(<<1, 1>>, <<5>>)
gammaH == Fresh(<<1, 1>>, <<4>>)
M0 == Fresh(<<XYZ>>, <<0, 0, 1>>)

CountTrue(mask) == Rank(mask, Len(mask))

\* SpinArray.__init__(shape, mask) with the default compact attributes; the
\* mask is kept flat (row-major over *Nd)
SpinArray_init(shape, mask) ==
    LET raw == [shape |-> shape, mask |-> mask, ndim |-> Len(shape),
                nM |-> CountTrue(mask), device |-> "cpu", dtype |-> "float32",
                T1_ |-> None, T2_ |-> None, gamma_ |-> None, M_ |-> None]
        s1 == SpinArray_setattr(raw, "T1_", T1G).val
        s2 == SpinArray_setattr(s1, "T2_", T2G).val
        s3 == SpinArray_setattr(s2, "gamma_", gammaH).val
    IN  SpinArray_setattr(s3, "M_", M0).val

(* ------------------- inputs of the attribute operations ----------------- *)
\* a caller's tensor of the given shape with distinct elements
Iota(shape) ==
    [shape |-> shape, strides |-> ContigStrides(shape),
     store |-> [k \in 1..Prod(shape) |-> 10 + k], buf |-> "arg"]

\* x.t() of a 2-d tensor: the same buffer, not contiguous
Transposed(t) ==
    [shape |-> <<t.shape[2], t.shape[1]>>,
     strides |-> <<t.strides[2], t.strides[1]>>,
     store |-> t.store, buf |-> t.buf]

\* the values a caller assigns: scalar, per-spin, per-batch, full (contiguous
\* or transposed), dense, and ill-shaped ones
CompactShapes(self) ==
    LET N == self.shape[1]
        nM == self.nM
    IN  { <<>>, <<nM>>, <<N, 1>>, <<N, nM>>, <<N + 1, nM>>, <<N, nM, XYZ>> }

CompactShapesM(self) ==
    LET N == self.shape[1]
        nM == self.nM
    IN  { <<XYZ>>, <<N, 1, XYZ>>, <<N, nM, XYZ>>, <<N, nM, 1>>, <<N, nM>> }

DenseShapes(self) ==
    { self.shape, self.shape \o <<XYZ>>, <<self.shape[1] + 1>> \o Tail(self.shape) }

DenseNames == {"T1", "T2", "gamma", "M"}

\* T1 and T1_ take every kind of value; T2 and γ, which run the same
\* statements, take a well-shaped and an ill-shaped one
Inputs(self, k) ==
    IF k \in {"T1", "M"} THEN {Iota(s) : s \in DenseShapes(self)}
    ELSE IF k \in DenseNames
    THEN {Iota(self.shape), Iota(<<self.shape[1] + 1>> \o Tail(self.shape))}
    ELSE IF k = "M_" THEN {Iota(s) : s \in CompactShapesM(self)}
    ELSE IF k = "T1_"
    THEN {Iota(s) : s \in CompactShapes(self)}
             \cup {Transposed(Iota(<<self.nM, self.shape[1]>>))}
    ELSE IF k \in SpinArray_compact
    THEN {Iota(<<>>), Iota(<<self.shape[1], self.nM>>),
          Iota(<<self.shape[1] + 1, self.nM>>)}
    ELSE {Iota(<<>>)}

AttrNames == SpinArray_slots \cup DenseNames \cup {"foo"}
WriteVals == {99}
\* the cells a caller writes: the first and the last of the dense value
WriteCells(t) == {1, Numel(t)} \cap (1..Numel(t))

\* spatial shapes *Nd: one or two axes
NdSet == {<<x>> : x \in 1..MaxNx} \cup {<<2, 2>>}

Idle == [idle |-> TRUE]

(* ------------------------ SpinArray: the object ------------------------- *)
InitArray ==
    /\ \E N \in 1..MaxN, Nd \in NdSet :
          \E mask \in [1..Prod(Nd) -> BOOLEAN] :
              /\ sa = SpinArray_init(<<N>> \o Nd, mask)
              /\ ctor = [shape |-> <<N>> \o Nd, mask |-> mask]
    /\ op = [name |-> "init"]
    /\ err = FALSE
    /\ nops = 0
    /\ cube = Idle /\ emb = Idle /\ cr = Idle /\ sim = Idle

\* spinarray.<k> = v
SetAttr ==
    /\ nops < MaxOps
    /\ \E k \in AttrNames : \E v \in Inputs(sa, k) :
          LET r == SpinArray_setattr(sa, k, v)
          IN  /\ sa' = IF r.ok THEN r.val ELSE sa
              /\ err' = ~r.ok
              /\ op' = [name |-> "setattr", k |-> k, vshape |-> v.shape,
                        sa0 |-> sa, cube0 |-> cube]
    /\ nops' = nops + 1
    /\ UNCHANGED <<cube, ctor, emb, cr, sim>>

\* spinarray.<k>[idx] = val: __getattr__, then an indexed write into the
\* value it returned
DenseWrite ==
    /\ nops < MaxOps
    /\ \E k \in DenseNames, val \in WriteVals :
          LET r == SpinArray_getattr(sa, k)
              k_ == k \o "_"
          IN  IF ~r.ok
              THEN /\ sa' = sa
                   /\ err' = TRUE
                   /\ op' = [name |-> "write", k |-> k]
              ELSE \E i \in WriteCells(r.val) :
                      LET cell == Offset(r.val, Unravel(i - 1, r.val.shape)) + 1
                      IN  /\ sa' = IF r.val.buf = k_
                                   THEN [sa EXCEPT ![k_].store[cell] = val]
                                   ELSE sa
                          /\ err' = FALSE
                          /\ op' = [name |-> "write", k |-> k, before |-> sa[k_],
                                    view |-> (r.val.buf = k_)]
    /\ nops' = nops + 1
    /\ UNCHANGED <<cube, ctor, emb, cr, sim>>

NextArray == SetAttr \/ DenseWrite

Spec == InitArray /\ [][NextArray]_vars

(* ------------------------------ SpinCube -------------------------------- *)
SpinCube_readonly == {"spinarray", "loc_"}
SpinCube_compact == {"Df_", "loc_"}
SpinCube_slots == SpinCube_readonly \cup SpinCube_compact \cup {"fov", "ofst"}

\* utils.ctrsub(x): the index of the centre of an axis of x points
ctrsub(x) == x \div 2

\* the flat positions (1-based, row-major over *Nd) of the masked-in spins
MaskedPositions(sp) ==
    Gather([p \in 1..Len(sp.mask) |-> p], sp.mask, 1)

\* _locn[i][mask[0, ...]][j] scaled by f: f*(p_i - ctrsub(x_i))/x_i for the
\* j-th masked-in spin; the field of view is a multiple of the axis sizes
\* here, so the quotient is exact
ScaledLocn(sp, i, j, f) ==
    LET Nd == Tail(sp.shape)
        p == Unravel(MaskedPositions(sp)[j] - 1, Nd)
    IN  (f * (p[i] - ctrsub(Nd[i]))) \div Nd[i]

\* the row of a (n, c) tensor that broadcasting pairs with batch element b
BRow(t, b) == IF t.shape[1] = 1 THEN 0 ELSE b

\* one pass of the loop of SpinCube._update_loc_: loc_[..., i] = ..., i is
\* 0-based.  It raises when the spin array has no i-th spatial axis, when
\* fov or ofst has no i-th column, or when the batch sizes do not broadcast
\* to N.
CanUpdateAxis(self, sp, i) ==
    /\ i + 1 <= Len(sp.shape) - 1
    /\ i + 1 <= self.fov.shape[2]
    /\ i + 1 <= self.ofst.shape[2]
    /\ self.fov.shape[1] \in {1, sp.shape[1]}
    /\ self.ofst.shape[1] \in {1, sp.shape[1]}

UpdateAxis(self, sp, i) ==
    [self EXCEPT !.loc_.store =
        [c \in 1..Len(self.loc_.store) |->
            IF (c - 1) % XYZ # i THEN self.loc_.store[c]
            ELSE LET b == (c - 1) \div (XYZ * sp.nM)
                     j == (((c - 1) \div XYZ) % sp.nM) + 1
                 IN  ScaledLocn(sp, i + 1, j, At(self.fov, <<BRow(self.fov, b), i>>))
                         + At(self.ofst, <<BRow(self.ofst, b), i>>)]]

\* SpinCube._update_loc_(): the cube after the loop, and whether it raised
RECURSIVE UpdateLocFrom(_, _, _)
UpdateLocFrom(self, sp, i) ==
    IF i = XYZ THEN Ok(self)
    ELSE IF ~CanUpdateAxis(self, sp, i) THEN [ok |-> FALSE, val |-> self]
    ELSE UpdateLocFrom(UpdateAxis(self, sp, i), sp, i + 1)

SpinCube_update_loc_(self, sp) == UpdateLocFrom(self, sp, 0)

\* assert (k_ not in self._readonly)
SpinCube_assert_readonly(k_) == k_ \notin SpinCube_readonly

\* SpinCube.__setattr__(k_, v_): [ok, sp, cube] - the spin array and the cube
\* after the call and whether it returned; a call that raises after the slot
\* was bound leaves the slot bound
SpinCube_setattr(self, sp, k_, v_) ==
    LET raise == [ok |-> FALSE, sp |-> sp, cube |-> self]
    IN
    IF ~SpinCube_assert_readonly(k_) THEN raise
    ELSE IF k_ \in SpinArray_slots \/ (k_ \o "_") \in SpinArray_slots
    THEN LET r == SpinArray_setattr(sp, k_, v_)
         IN  IF r.ok THEN [ok |-> TRUE, sp |-> r.val, cube |-> self] ELSE raise
    ELSE
    LET isDense == (k_ \o "_") \in SpinCube_compact
        shapeOk == /\ Len(v_.shape) >= sp.ndim
                   /\ SubSeq(v_.shape, 1, sp.ndim) = sp.shape
        ex == IF isDense THEN extract(sp, v_) ELSE Ok(v_)
        k1 == IF isDense THEN k_ \o "_" ELSE k_
    IN  IF isDense /\ ~shapeOk THEN raise
        ELSE IF isDense /\ ~SpinCube_assert_readonly(k1) THEN raise
        ELSE IF k1 = "Df_"
        THEN IF CanExpand(ex.val.shape, ShapeC_(sp))
             THEN [ok |-> TRUE, sp |-> sp,
                   cube |-> Bind(self, k1, Expand(ex.val, ShapeC_(sp)))]
             ELSE raise
        ELSE IF k1 \in {"fov", "ofst"}
        THEN IF Len(ex.val.shape) # 2 THEN raise
             ELSE LET u == SpinCube_update_loc_(Bind(self, k1, ex.val), sp)
                  IN  [ok |-> u.ok, sp |-> sp, cube |-> u.val]
        ELSE IF k1 \in SpinCube_slots
        THEN [ok |-> TRUE, sp |-> sp, cube |-> Bind(self, k1, ex.val)]
        ELSE raise

\* default arguments of SpinCube.__init__
ofst0 == Fresh(<<1, XYZ>>, <<0, 0, 0>>)
Df0 == Fresh(<<>>, <<0>>)

\* SpinCube.__init__(shape, fov, mask, ofst) with the other defaults; sp is
\* the SpinArray it constructed
SpinCube_init(sp, fov, ofst) ==
    LET raw == [spinarray |-> "sp", fov |-> [fov EXCEPT !.buf = "fov"],
                ofst |-> [ofst EXCEPT !.buf = "ofst"],
                loc_ |-> [Fresh(ShapeM_(sp), [c \in 1..Prod(ShapeM_(sp)) |-> 0])
                              EXCEPT !.buf = "loc_"],
                Df_ |-> None]
        u == SpinCube_update_loc_(raw, sp)
    IN  IF ~u.ok THEN [ok |-> FALSE, sp |-> sp, cube |-> u.val]
        ELSE SpinCube_setattr(u.val, sp, "Df_", Df0)

(* ------------------------ SpinCube: the object -------------------------- *)
\* the cube's three spatial axes
Nd3Set ==
    UNION {{<<x, 1, 1>>, <<1, x, 1>>, <<1, 1, x>>} : x \in 2..MaxNx}

\* fields of view and offsets: (1, xyz) and (N, xyz); the field of view is a
\* multiple of every axis size
FovUnit(shape) == Prod(Tail(shape))
FovInputs(shape) ==
    { [shape |-> <<n, XYZ>>, strides |-> <<XYZ, 1>>,
       store |-> [c \in 1..(n * XYZ) |-> FovUnit(shape) * (((c + a) % 2) + 1)],
       buf |-> "arg"] : n \in {1, shape[1]}, a \in {0, 1} }
OfstInputs(shape) ==
    { [shape |-> <<n, XYZ>>, strides |-> <<XYZ, 1>>,
       store |-> [c \in 1..(n * XYZ) |-> c], buf |-> "arg"] : n \in {1, shape[1]} }
       \cup {[ofst0 EXCEPT !.buf = "arg"]}

CubeInputs(sp, k) ==
    IF k = "fov"
    THEN FovInputs(sp.shape) \cup {Iota(<<sp.shape[1], 2>>), Iota(<<XYZ>>)}
    ELSE IF k = "ofst" THEN OfstInputs(sp.shape) \cup {Iota(<<sp.shape[1] + 1, XYZ>>)}
    ELSE IF k = "Df_" THEN {Iota(s) : s \in CompactShapes(sp)}
    ELSE IF k = "Df" THEN {Iota(s) : s \in DenseShapes(sp)}
    ELSE IF k = "loc"
    THEN {Iota(sp.shape \o <<XYZ>>), Iota(sp.shape)}
    ELSE IF k = "loc_" THEN {Iota(ShapeM_(sp))}
    ELSE Inputs(sp, k)

CubeNames ==
    SpinCube_slots \cup {"Df", "loc"} \cup SpinArray_slots \cup DenseNames \cup {"foo"}

\* the cube is constructed with a batch of one or of MaxN and the fields of
\* view whose x extent is the larger one
InitCube ==
    /\ \E N \in {1, MaxN}, Nd \in Nd3Set :
          \E mask \in [1..Prod(Nd) -> BOOLEAN] :
              \E fov \in {f \in FovInputs(<<N>> \o Nd) : f.store[1] > f.store[2]} :
                 LET sp == SpinArray_init(<<N>> \o Nd, mask)
                 IN  /\ sa = sp
                     /\ cube = SpinCube_init(sp, fov, ofst0).cube
                     /\ ctor = [shape |-> <<N>> \o Nd, mask |-> mask]
    /\ op = [name |-> "init"]
    /\ err = FALSE
    /\ nops = 0
    /\ emb = Idle /\ cr = Idle /\ sim = Idle

\* spincube.<k> = v
CubeSetAttr ==
    /\ nops < MaxOps
    /\ \E k \in CubeNames : \E v \in CubeInputs(sa, k) :
          LET r == SpinCube_setattr(cube, sa, k, v)
          IN  /\ sa' = r.sp
              /\ cube' = r.cube
              /\ err' = ~r.ok
              /\ op' = [name |-> "cube_setattr", k |-> k, vshape |-> v.shape,
                        sa0 |-> sa, cube0 |-> cube]
    /\ nops' = nops + 1
    /\ UNCHANGED <<ctor, emb, cr, sim>>

\* the parameters of SpinArray.pulse2beff after self, in order, and their
\* defaults; argument values are named by the expression that produced them
pulse2beff_params ==
    <<"pulse", "doEmbed", "loc", "loc_", "Df", "Df_", "b1Map", "b1Map_">>
pulse2beff_defaults ==
    [doEmbed |-> "False", loc |-> "None", loc_ |-> "None", Df |-> "None",
     Df_ |-> "None", b1Map |-> "None", b1Map_ |-> "None"]

\* a call f(*pos, **kw): the parameters bound, or TypeError when a keyword
\* names no parameter, names one already bound by position, or a parameter
\* without default is left unbound
CallBind(params, defaults, pos, kw) ==
    LET names == {params[i] : i \in 1..Len(params)}
        byPos == {params[i] : i \in 1..Len(pos)}
    IN  IF \/ Len(pos) > Len(params)
           \/ DOMAIN kw \cap byPos # {}
           \/ ~(DOMAIN kw \subseteq names)
           \/ ~(names \subseteq (byPos \cup DOMAIN kw \cup DOMAIN defaults))
        THEN [ok |-> FALSE, error |-> "TypeError", val |-> defaults]
        ELSE [ok |-> TRUE, error |-> "",
              val |-> [k \in names |->
                         IF k \in byPos
                         THEN pos[CHOOSE i \in 1..Len(pos) : params[i] = k]
                         ELSE IF k \in DOMAIN kw THEN kw[k] ELSE defaults[k]]]

\* the body of SpinArray.pulse2beff on its bound parameters: the three
\* assertions, then the locations given to pulse.beff and whether the result
\* is embedded
SpinArray_pulse2beff(a) ==
    IF ~((a.loc_ = "None") # (a.loc = "None"))
    THEN [ok |-> FALSE, error |-> "AssertionError: loc", locs |-> "", embedded |-> FALSE]
    ELSE IF ~(a.Df_ = "None" \/ a.Df = "None")
    THEN [ok |-> FALSE, error |-> "AssertionError: Df", locs |-> "", embedded |-> FALSE]
    ELSE IF ~(a.b1Map_ = "None" \/ a.b1Map = "None")
    THEN [ok |-> FALSE, error |-> "AssertionError: b1Map", locs |-> "", embedded |-> FALSE]
    ELSE [ok |-> TRUE, error |-> "",
          locs |-> IF a.loc = "None" THEN a.loc_ ELSE "extract(" \o a.loc \o ")",
          embedded |-> (a.doEmbed = "True")]

\* SpinCube.pulse2beff(pulse, doEmbed, Δf, Δf_, b1Map, b1Map_): the call
\* self.spinarray.pulse2beff(pulse, self.loc_, doEmbed=doEmbed, Δf=self.Δf,
\* Δf_=self.Δf_, b1Map=b1Map, b1Map_=b1Map_)
SpinCube_pulse2beff(doEmbed, b1Map, b1Map_) ==
    LET call == CallBind(pulse2beff_params, pulse2beff_defaults,
                         <<"pulse", "self.loc_">>,
                         [doEmbed |-> doEmbed, Df |-> "self.Df",
                          Df_ |-> "self.Df_", b1Map |-> b1Map,
                          b1Map_ |-> b1Map_])
    IN  IF ~call.ok
        THEN [ok |-> FALSE, error |-> call.error, locs |-> "", embedded |-> FALSE]
        ELSE SpinArray_pulse2beff(call.val)

\* spincube.pulse2beff(pulse, doEmbed=..., b1Map=... or b1Map_=...)
CubePulse2Beff ==
    /\ nops < MaxOps
    /\ \E doEmbed \in {"True", "False"},
          b1 \in {<<"None", "None">>, <<"b1Map", "None">>, <<"None", "b1Map_">>} :
          LET r == SpinCube_pulse2beff(doEmbed, b1[1], b1[2])
          IN  /\ err' = ~r.ok
              /\ op' = [name |-> "pulse2beff", doEmbed |-> doEmbed, r |-> r]
    /\ nops' = nops + 1
    /\ UNCHANGED <<sa, cube, ctor, emb, cr, sim>>

\* SetAttr is an assignment made directly on spincube.spinarray
NextCube == CubeSetAttr \/ SetAttr \/ CubePulse2Beff

SpecCube == InitCube /\ [][NextCube]_vars

(* ------------------- embed / extract / crds_: calls --------------------- *)
\* spatial shapes of the calls: one or two axes
NdMapSet == {<<x>> : x \in 1..MaxNx} \cup {<<2, 2>>}

\* a dense array laid out column-major: same shape, not contiguous
ColMajor(t) ==
    [shape |-> t.shape,
     strides |-> [d \in 1..Len(t.shape) |-> Prod(SubSeq(t.shape, 1, d - 1))],
     store |-> t.store, buf |-> t.buf]

DenseArrays(self) ==
    {Iota(self.shape), Iota(self.shape \o <<XYZ>>), ColMajor(Iota(self.shape))}

\* compact inputs of embed: the two leading dimensions range around (N, nM)
CompactArgs(self) ==
    {Iota(<<a, b>> \o tr) :
        a \in 1..(self.shape[1] + 1), b \in 0..(self.nM + 1), tr \in {<<>>, <<XYZ>>}}

\* index lists with 1..MaxL entries, each in 0..(n-1), in non-decreasing
\* order
IndexLists(n) ==
    UNION {{l \in [1..len -> 0..(n - 1)] :
               \A i \in 1..(len - 1) : l[i] <= l[i + 1]} : len \in 1..MaxL}

\* indexing expressions on a dense attribute of shape dshape: one list for
\* each of the first k dimensions, k >= ndim
RECURSIVE ListTuples(_)
ListTuples(dims) ==
    IF dims = <<>> THEN {<<>>}
    ELSE {<<l>> \o rest : l \in IndexLists(Head(dims)), rest \in ListTuples(Tail(dims))}

\* one single-entry list for each trailing dimension
RECURSIVE SingleTuples(_)
SingleTuples(dims) ==
    IF dims = <<>> THEN {<<>>}
    ELSE {<<(<<i>>)>> \o rest : i \in 0..(Head(dims) - 1), rest \in SingleTuples(Tail(dims))}

InitMap ==
    /\ \E N \in 1..MaxN, Nd \in NdMapSet :
          \E mask \in [1..Prod(Nd) -> BOOLEAN] :
              /\ sa = SpinArray_init(<<N>> \o Nd, mask)
              /\ ctor = [shape |-> <<N>> \o Nd, mask |-> mask]
    /\ emb = [phase |-> "start"]
    /\ cr = Idle
    /\ op = [name |-> "init"]
    /\ err = FALSE
    /\ nops = 0
    /\ cube = Idle /\ sim = Idle

\* v_ = spinarray.extract(X)
Extract ==
    /\ emb.phase = "start" /\ cr = Idle
    /\ \E X \in DenseArrays(sa) :
          emb' = [phase |-> "extracted", X |-> X, r |-> extract(sa, X)]
    /\ UNCHANGED <<sa, cube, ctor, op, err, nops, cr, sim>>

\* spinarray.embed(v_) of the array just extracted
Embed ==
    /\ emb.phase = "extracted" /\ emb.r.ok
    /\ emb' = [phase |-> "embedded", X |-> emb.X, v_ |-> emb.r.val,
               r |-> embed(sa, emb.r.val)]
    /\ UNCHANGED <<sa, cube, ctor, op, err, nops, cr, sim>>

\* spinarray.embed(v_) of a caller's compact array
EmbedArg ==
    /\ emb.phase = "start" /\ cr = Idle
    /\ \E v_ \in CompactArgs(sa) :
          emb' = [phase |-> "embed_arg", v_ |-> v_, r |-> embed(sa, v_)]
    /\ UNCHANGED <<sa, cube, ctor, op, err, nops, cr, sim>>

\* crds_ = spinarray.crds_(crds), then v_[crds_] and v[crds] for the compact
\* array v_ and its dense value v = embed(v_)
Crds ==
    /\ emb.phase = "embedded" /\ emb.r.ok /\ cr = Idle
    /\ \E n \in sa.ndim..Len(emb.r.val.shape) :
          \E lead \in ListTuples(sa.shape),
             trail \in SingleTuples(SubSeq(emb.r.val.shape, sa.ndim + 1, n)) :
             LET crds == lead \o trail
                 c == crds_(sa, crds)
             IN  cr' = [crds |-> crds, c |-> c,
                        dense |-> AdvIndex(emb.r.val, crds),
                        compact |-> IF c.ok THEN AdvIndex(emb.v_, c.val)
                                    ELSE Raise]
    /\ UNCHANGED <<sa, cube, ctor, op, err, nops, emb, sim>>

NextMap == Extract \/ Embed \/ EmbedArg \/ Crds

SpecMap == InitMap /\ [][NextMap]_vars

(* ------------------------ exact arithmetic ------------------------------ *)
(* The simulators compute in floating point.  The model computes exactly,   *)
(* in fixed point: the integer a stands for the number a/Unit.  The         *)
(* relaxation factors are 1, 1/2 and 1/3, fields turn by quarter turns (cos *)
(* and sin in {-1, 0, 1}) and the caller's magnetizations are whole         *)
(* numbers, so every number formed within MaxT time points is a whole       *)
(* multiple of 1/6^MaxT and no product is rounded.                          *)
Unit == 6 ^ MaxT

Num(i) == i * Unit
Mul(a, b) == (a * b) \div Unit

Abs(x) == IF x < 0 THEN 0 - x ELSE x

\* the sequence f with every element computed
AsSeq(f) == f \o <<>>

RECURSIVE Pow(_, _)
Pow(a, n) == IF n = 0 THEN Num(1) ELSE Mul(a, Pow(a, n - 1))

\* a relaxation time T is given by e = exp(-dt/T); a duration counts dwell
\* times dt, so that exp(-dur/T) = e^dur
ExpNeg(dur, T) == Pow(T.val, dur)

\* cos and sin of q quarter turns
Cos4(q) == <<1, 0, 0 - 1, 0>>[(q % 4) + 1]
Sin4(q) == <<0, 1, 0, 0 - 1>>[(q % 4) + 1]

(* ------------------------- mrphy.slowsims ------------------------------- *)
(* Fields are axis-aligned integer vectors; g2pdt, the gyro angular step    *)
(* γ2πdt, counts quarter turns per unit of field.  A magnetization is a     *)
(* tuple <<x, y, z>>; M of shape (N, xyz) is a sequence of N of them.       *)

\* beffective.beff2uϕ(b, γ2πdt): the axis u = b normalized (the zero vector
\* for b = 0) and the angle ϕ = |b|·γ2πdt, here in quarter turns
beff2uphi(b, g2pdt) ==
    LET n == Abs(b[1]) + Abs(b[2]) + Abs(b[3])
    IN  [u   |-> IF n = 0 THEN <<0, 0, 0>>
                 ELSE <<b[1] \div n, b[2] \div n, b[3] \div n>>,
         phi |-> n * g2pdt]

\* utils.uϕrot(u, ϕ, v) for one spin: Rodrigues' rotation formula
\* cϕ·v + (1 - cϕ)·(u·v)·u + sϕ·(u × v)
uphirot(u, phi, v) ==
    LET c   == Cos4(phi)
        sn  == Sin4(phi)
        uv  == u[1] * v[1] + u[2] * v[2] + u[3] * v[3]
        crs == <<u[2] * v[3] - u[3] * v[2],
                 u[3] * v[1] - u[1] * v[3],
                 u[1] * v[2] - u[2] * v[1]>>
    IN  AsSeq([i \in 1..3 |-> c * v[i] + (1 - c) * uv * u[i] + sn * crs[i]])

\* E1 = tensor(1) if T1 is None else exp(-dt/T1); the same for E2
RelaxFactor(T) == IF T = None THEN Num(1) ELSE ExpNeg(1, T)

\* the relaxation that leaves out the recovery term -= E1_1
RelaxNoRecovery(v, E1, E2) ==
    <<Mul(v[1], E2), Mul(v[2], E2), Mul(v[3], E1)>>

\* M1[..., 0:2] *= E2;  M1[..., 2] *= E1;  M1[..., 2] -= E1_1, one spin
Relax(v, E1, E2) ==
    <<Mul(v[1], E2), Mul(v[2], E2), Mul(v[3], E1) - (E1 - Num(1))>>

\* the names M, M1 left as they are
SwapNot(M, M1) == <<M, M1>>

\* M, M1 = M1, M
Swap(M, M1) == <<M1, M>>

\* Beff[..., t]
FieldAt(Beff, t) == AsSeq([s \in 1..Len(Beff) |-> Beff[s][t + 1]])

\* the test that wants an angle of every spin
AllNonzero(phi) == \A s \in 1..Len(phi) : phi[s] # 0

\* torch.any(ϕ != 0)
AnyNonzero(phi) == \E s \in 1..Len(phi) : phi[s] # 0

\* x.reshape(x.shape+(ndim-x.ndim)*(1,))
PadShape(shape, ndim) == shape \o [i \in 1..(ndim - Len(shape)) |-> 1]

\* a *= b on a tensor of shape `target`: b of shape `shape` must broadcast
\* to `target` itself
CanMulInto(target, shape) ==
    /\ Len(shape) <= Len(target)
    /\ \A i \in 1..Len(shape) :
          LET d == shape[i]
              e == target[Len(target) - Len(shape) + i]
          IN  d = 1 \/ d = e

\* the shapes of E1 and of E2 after the preprocessing of blochsim, for M of
\* shape (N, xyz): ndim = 1, E2 = E2[..., None]
E1Shape(c) == PadShape(IF c.T1 = None THEN <<>> ELSE c.T1s, 1)
E2Shape(c) == PadShape(IF c.T2 = None THEN <<>> ELSE c.T2s, 1) \o <<1>>

\* M1[..., 0:2] *= E2 alone, one spin
RelaxXY(v, E2) == <<Mul(v[1], E2), Mul(v[2], E2), v[3]>>

\* one pass of the loop body of blochsim for time index t.  heap holds the
\* buffers, M and M1 are the buffers the names M and M1 are bound to (0: not
\* bound); uϕrot returns a new buffer, M1 = M binds the buffer of M.  An
\* in-place product whose factor does not broadcast raises: the first one
\* before anything is written, the second one after M1[..., 0:2] is written.
blochsim_body(c, t) ==
    LET b     == FieldAt(c.Beff, t)
        up    == AsSeq([s \in 1..Len(b) |-> beff2uphi(b[s], c.g2pdt)])
        rot   == AnyNonzero(AsSeq([s \in 1..Len(b) |-> up[s].phi]))
        heap1 == IF rot
                 THEN Append(c.heap,
                             AsSeq([s \in 1..Len(b) |->
                                 uphirot(up[s].u, up[s].phi, c.heap[c.M][s])]))
                 ELSE c.heap
        m1    == IF rot THEN Len(heap1) ELSE c.M
        heap2 == [heap1 EXCEPT ![m1] =
                    AsSeq([s \in 1..Len(b) |->
                        Relax(heap1[m1][s], RelaxFactor(c.T1), RelaxFactor(c.T2))])]
        heapx == [heap1 EXCEPT ![m1] =
                    AsSeq([s \in 1..Len(b) |->
                        RelaxXY(heap1[m1][s], RelaxFactor(c.T2))])]
        sw    == Swap(c.M, m1)
    IN  IF ~CanMulInto(<<Len(b), 2>>, E2Shape(c))
        THEN [c EXCEPT !.pc = "raised", !.heap = heap1]
        ELSE IF ~CanMulInto(<<Len(b)>>, E1Shape(c))
        THEN [c EXCEPT !.pc = "raised", !.heap = heapx]
        ELSE [c EXCEPT !.heap = heap2, !.M = sw[1], !.M1 = sw[2], !.t = t + 1,
                       !.hist = Append(c.hist, [t |-> t, in |-> c.heap[c.M],
                                                out |-> heap2[m1],
                                                b |-> b, m |-> c.M, m1 |-> m1,
                                                nbuf |-> Len(c.heap),
                                                rotated |-> heap1[m1]])]

\* blochsim_1step(M, M1, b, E1, E1_1, E2, γ2πdt) with E1_1 = E1 - 1: heap
\* holds the buffers, M and M1 are the buffers of the caller's arguments.
\* The result has the heap after the call, the pair of buffers returned and
\* the buffer the name M1 was bound to before the relaxation.
blochsim_1step(heap, M, M1, b, E1, E2, g2pdt) ==
    LET up    == AsSeq([s \in 1..Len(b) |-> beff2uphi(b[s], g2pdt)])
        rot   == AnyNonzero(AsSeq([s \in 1..Len(b) |-> up[s].phi]))
        heap1 == IF rot
                 THEN Append(heap,
                             AsSeq([s \in 1..Len(b) |->
                                 uphirot(up[s].u, up[s].phi, heap[M][s])]))
                 ELSE heap
        m1    == IF rot THEN Len(heap1) ELSE M
        heap2 == [heap1 EXCEPT ![m1] =
                    AsSeq([s \in 1..Len(b) |-> Relax(heap1[m1][s], E1, E2)])]
        sw    == Swap(M, m1)
    IN  [heap |-> heap2, ret |-> sw, m1 |-> m1, rotated |-> heap1[m1]]

\* A @ v for a 3x3 matrix A (a tuple of rows) and a vector v
MatVec(A, v) ==
    AsSeq([i \in 1..3 |->
        Mul(A[i][1], v[1]) + Mul(A[i][2], v[2]) + Mul(A[i][3], v[3])])

VecAdd(a, b) == <<a[1] + b[1], a[2] + b[2], a[3] + b[3]>>

\* blochsim_ab without the bias B
blochsim_a(M, A, B) == AsSeq([s \in 1..Len(M) |-> MatVec(A[s], M[s])])

\* blochsim_ab(M, A, B) = (A @ M[..., None]).squeeze_(dim=-1) + B
blochsim_ab(M, A, B) ==
    AsSeq([s \in 1..Len(M) |-> VecAdd(MatVec(A[s], M[s]), B[s])])

\* freeprec without its assertion
AnyRelaxation(T1, T2) == TRUE

\* assert((T1 is None) == (T2 is None))
BothOrNeither(T1, T2) == (T1 = None) = (T2 = None)

\* freeprec(M, dur, T1=T1, T2=T2, Δf=Δf); Δf counts quarter turns per dwell
\* time, ϕ = -(2π)·Δf·dur.  No statement of freeprec writes into M.
freeprec(M, dur, T1, T2, Df) ==
    LET c    == IF Df = None THEN 1 ELSE Cos4(Df.val * dur)
        sn   == IF Df = None THEN 0 ELSE 0 - Sin4(Df.val * dur)
        prec == AsSeq([s \in 1..Len(M) |->
                    <<c * M[s][1] - sn * M[s][2],
                      sn * M[s][1] + c * M[s][2],
                      M[s][3]>>])
    IN  IF ~BothOrNeither(T1, T2) THEN Raise
        ELSE IF T1 = None THEN Ok(prec)
        ELSE IF T2 = None THEN Raise
        ELSE LET E1 == ExpNeg(dur, T1)
                 E2 == ExpNeg(dur, T2)
             IN  Ok(AsSeq([s \in 1..Len(M) |->
                        <<Mul(E2, prec[s][1]), Mul(E2, prec[s][2]),
                          Mul(E1, prec[s][3]) + Num(1) - E1>>]))

(* --------------------------- simulator calls ---------------------------- *)
\* the fields of one time point: none, a quarter turn about x, y or z
FieldSet == {<<0, 0, 0>>, <<1, 0, 0>>, <<0, 1, 0>>, <<0, 0, 1>>}
\* the caller's magnetization of one spin
MSet == {<<Num(0), Num(0), Num(1)>>, <<Num(1), Num(0), Num(0)>>,
         <<Num(1), Num(2), Num(0 - 1)>>}
\* T1 and T2, by their exp(-dt/T): 1/2 and 1/3
T1Set == {None, Some(Unit \div 2)}
T2Set == {None, Some(Unit \div 3)}
\* Δf
DfSet == {None, Some(0), Some(1)}

\* the rotation of one step as a matrix: its columns are the images of the
\* unit vectors
RotMatrix(u, phi) ==
    LET col == AsSeq([j \in 1..3 |->
                   uphirot(u, phi,
                           AsSeq([i \in 1..3 |-> Num(IF i = j THEN 1 ELSE 0)]))])
    IN  AsSeq([i \in 1..3 |-> AsSeq([j \in 1..3 |-> col[j][i]])])

MatMul(A, B) ==
    AsSeq([i \in 1..3 |-> AsSeq([j \in 1..3 |->
        Mul(A[i][1], B[1][j]) + Mul(A[i][2], B[2][j]) + Mul(A[i][3], B[3][j])])])

Identity3 ==
    <<<<Num(1), 0, 0>>, <<0, Num(1), 0>>, <<0, 0, Num(1)>>>>

\* the affine map of one step on one spin: relaxation after rotation,
\* v |-> D·R·v + (0, 0, 1 - E1)
StepA(b, c) ==
    LET up == beff2uphi(b, c.g2pdt)
        R  == RotMatrix(up.u, up.phi)
        E1 == RelaxFactor(c.T1)
        E2 == RelaxFactor(c.T2)
    IN  AsSeq([i \in 1..3 |->
            AsSeq([j \in 1..3 |-> Mul(IF i = 3 THEN E1 ELSE E2, R[i][j])])])

StepB(c) == <<0, 0, Num(1) - RelaxFactor(c.T1)>>

\* the propagator (A, B) of one spin for the steps ts, composed in the order
\* of ts
RECURSIVE Compose(_, _, _)
Compose(c, s, ts) ==
    IF ts = <<>> THEN [A |-> Identity3, B |-> <<0, 0, 0>>]
    ELSE LET n    == Len(ts)
             prev == Compose(c, s, SubSeq(ts, 1, n - 1))
             A    == StepA(c.Beff[s][ts[n] + 1], c)
         IN  [A |-> MatMul(A, prev.A),
              B |-> VecAdd(MatVec(A, prev.B), StepB(c))]

Forward(n) == AsSeq([i \in 1..n |-> i - 1])
Backward(n) == AsSeq([i \in 1..n |-> n - i])

\* the shapes of the arguments: T1 and T2 scalars, T1 per batch element,
\* or one of T1, T2, Beff made for a batch of N + 1
ShapeCases == {"scalar", "perbatch", "T1long", "T2long", "Befflong"}
GoodShapes == {"scalar", "perbatch"}

\* the call blochsim(M, Beff, T1=T1, T2=T2, γ=γ, dt=dt) with M of shape
\* (N, xyz): the caller's M is buffer 1.  The first `on` spins of the batch
\* see the field f, the others no field.
InitSim ==
    /\ \E N \in 1..MaxN, nT \in 0..MaxT :
          \E f \in [1..nT -> FieldSet], on \in 1..N,
             m \in MSet, T1 \in T1Set, T2 \in T2Set, case \in ShapeCases :
             LET M0s == [s \in 1..N |-> m]
                 NB  == IF case = "Befflong" THEN N + 1 ELSE N
             IN  /\ case \in {"perbatch", "T1long"} => T1 # None
                 /\ case = "T2long" => T2 # None
                 /\ case \notin GoodShapes => on = N
                 /\ sim = [pc |-> "entry", t |-> 0, nT |-> nT, case |-> case,
                        Beff |-> [s \in 1..NB |->
                                    [t \in 1..nT |->
                                        IF s <= on THEN f[t] ELSE <<0, 0, 0>>]],
                        T1 |-> T1, T2 |-> T2, g2pdt |-> 1,
                        T1s |-> IF case = "perbatch" THEN <<N>>
                                ELSE IF case = "T1long" THEN <<N + 1>> ELSE <<>>,
                        T2s |-> IF case = "T2long" THEN <<N + 1>> ELSE <<>>,
                        Min |-> M0s, heap |-> <<M0s>>, M |-> 1, M1 |-> 0,
                        hist |-> <<>>, ret |-> <<>>, ab |-> None, fp |-> None,
                        one |-> None]
    /\ sa = Idle /\ cube = Idle /\ ctor = Idle /\ emb = Idle /\ cr = Idle
    /\ op = [name |-> "init"]
    /\ err = FALSE
    /\ nops = 0

\* assert(M.shape[:-1] == Beff.shape[:-2]), then the preprocessing, which
\* checks no shape
BlochEnter ==
    /\ sim.pc = "entry"
    /\ sim' = [sim EXCEPT !.pc = IF Len(sim.heap[sim.M]) = Len(sim.Beff)
                                 THEN "loop" ELSE "raised"]
    /\ UNCHANGED <<sa, cube, ctor, op, err, nops, emb, cr>>

\* for t in range(Beff.shape[-1]): one pass of the loop
BlochStep ==
    /\ sim.pc = "loop" /\ sim.t < sim.nT
    /\ sim' = blochsim_body(sim, sim.t)
    /\ UNCHANGED <<sa, cube, ctor, op, err, nops, emb, cr>>

\* return M
BlochReturn ==
    /\ sim.pc = "loop" /\ sim.t = sim.nT
    /\ sim' = [sim EXCEPT !.pc = "done", !.ret = sim.heap[sim.M]]
    /\ UNCHANGED <<sa, cube, ctor, op, err, nops, emb, cr>>

\* blochsim_ab(M, A, B) on a copy of the magnetization blochsim was called
\* with, (A, B) composed from the same fields in the order `order`
BlochAB ==
    /\ sim.pc = "done" /\ sim.ab = None /\ sim.fp = None
    /\ sim.case \in GoodShapes
    /\ \E order \in {"forward", "backward"} :
          LET ts == IF order = "forward" THEN Forward(sim.nT) ELSE Backward(sim.nT)
              P  == AsSeq([s \in 1..Len(sim.Min) |-> Compose(sim, s, ts)])
              A  == AsSeq([s \in 1..Len(sim.Min) |-> P[s].A])
              B  == AsSeq([s \in 1..Len(sim.Min) |-> P[s].B])
          IN  sim' = [sim EXCEPT !.ab = [order |-> order, A |-> A, B |-> B,
                                         val |-> blochsim_ab(sim.Min, A, B)]]
    /\ UNCHANGED <<sa, cube, ctor, op, err, nops, emb, cr>>

\* freeprec(M, dur, T1=T1, T2=T2, Δf=Δf) on a copy of the magnetization
\* blochsim was called with, dur = nT·dt
FreePrec ==
    /\ sim.pc = "done" /\ sim.ab = None /\ sim.fp = None
    /\ sim.case \in GoodShapes
    /\ \E Df \in DfSet :
          sim' = [sim EXCEPT !.fp = [Df |-> Df, M |-> sim.Min,
                                     r |-> freeprec(sim.Min, sim.nT, sim.T1,
                                                    sim.T2, Df)]]
    /\ UNCHANGED <<sa, cube, ctor, op, err, nops, emb, cr>>

\* for t in range(Beff.shape[-1]): ...; return M - the loop of blochsim run
\* from the pass c is at to its end or to the pass that raises
RECURSIVE blochsim_loop(_)
blochsim_loop(c) ==
    IF c.pc # "loop" THEN c
    ELSE IF c.t < c.nT THEN blochsim_loop(blochsim_body(c, c.t))
    ELSE [c EXCEPT !.pc = "done", !.ret = c.heap[c.M]]

\* SpinArray.applypulse(pulse, loc_=loc_) with doEmbed = False: beff_ is what
\* pulse2beff returned, the buffer of self.M_ is buffer 1, T1_ and T2_ are the
\* population's, and M_ = sims.blochsim(self.M_, beff_, ...) is returned.
\* M names the buffer returned.
SpinArray_applypulse(c) ==
    LET r == blochsim_loop([c EXCEPT !.pc = "loop"])
    IN  [r EXCEPT !.pc = IF r.pc = "done" THEN "applied" ELSE "raised"]

ApplyPulse ==
    /\ sim.pc = "entry"
    /\ sim.case \in GoodShapes
    /\ sim.T1 # None /\ sim.T2 # None
    /\ sim' = SpinArray_applypulse(sim)
    /\ UNCHANGED <<sa, cube, ctor, op, err, nops, emb, cr>>

\* M, M1 = blochsim_1step(M, M1, b, E1, E1_1, E2, γ2πdt) called with the
\* caller's M in buffer 1, a pre-allocated M1 of zeros in buffer 2 and the
\* field of the first time point
OneStep ==
    /\ sim.pc = "entry"
    /\ sim.case \in GoodShapes
    /\ sim.nT >= 1
    /\ LET scratch == [s \in 1..Len(sim.Min) |-> <<0, 0, 0>>]
           heap0   == <<sim.heap[1], scratch>>
           b       == FieldAt(sim.Beff, 0)
           r       == blochsim_1step(heap0, 1, 2, b, RelaxFactor(sim.T1),
                                     RelaxFactor(sim.T2), sim.g2pdt)
       IN  sim' = [sim EXCEPT !.pc = "stepped", !.heap = r.heap,
                              !.M = r.ret[1], !.M1 = r.ret[2],
                              !.one = Some([b |-> b, in |-> heap0[1], m |-> 1,
                                            scratch |-> 2, m1 |-> r.m1,
                                            nbuf |-> Len(heap0),
                                            rotated |-> r.rotated,
                                            out |-> r.heap[r.m1]])]
    /\ UNCHANGED <<sa, cube, ctor, op, err, nops, emb, cr>>

NextSim == OneStep \/ ApplyPulse \/ BlochEnter \/ BlochStep \/ BlochReturn \/ BlochAB \/ FreePrec

SpecSim == InitSim /\ [][NextSim]_vars

(* ------------------------------ claim C1 -------------------------------- *)
\* whether the k-th element (row-major) of an array of shape
\* ctor.shape + trailing lies at a masked-in position
MaskedIn(k, trailing) ==
    ctor.mask[(((k - 1) \div Prod(trailing)) % Len(ctor.mask)) + 1]

\* C1: embed(extract(X)) has the shape of X, equals X at every masked-in
\* position of every batch element and is NaN at every masked-out position.
C1_EmbedExtractRoundTrip ==
    (emb.phase = "embedded") =>
        /\ emb.r.ok
        /\ emb.r.val.shape = emb.X.shape
        /\ \A k \in 1..Numel(emb.X) :
              Flat(emb.r.val)[k] =
                  IF MaskedIn(k, DropFirst(emb.X.shape, Len(ctor.shape)))
                  THEN Flat(emb.X)[k] ELSE NaN

\* a batch of two on a 2x2 grid with two spins masked in, xyz trailing
C1_Witness ==
    /\ emb.phase = "embedded" /\ emb.r.ok
    /\ emb.X.shape = <<2, 2, 2, 3>>
    /\ sa.nM = 2
    /\ emb.v_.shape = <<2, 2, 3>>

(* ------------------------------ claim C2 -------------------------------- *)
\* C2: after construction and any sequence of attribute assignments, shape,
\* mask, ndim and nM are those of the construction, nM is the number of true
\* mask entries, T1_, T2_ and gamma_ have shape (N, nM) and M_ has shape
\* (N, nM, 3).
C2_StructureAndShapesKept ==
    LET N == ctor.shape[1]
        nM == CountTrue(ctor.mask)
    IN  /\ sa.shape = ctor.shape
        /\ sa.mask = ctor.mask
        /\ sa.ndim = Len(ctor.shape)
        /\ sa.nM = nM
        /\ \A k \in {"T1_", "T2_", "gamma_"} : sa[k].shape = <<N, nM>>
        /\ sa.M_.shape = <<N, nM, 3>>

\* a per-batch value (N, 1) was assigned to a compact attribute of a batch of
\* two with two spins and was broadcast
C2_Witness ==
    /\ op.name = "setattr" /\ ~err
    /\ op.k \in {"T1_", "T2_", "gamma_"}
    /\ op.vshape = <<2, 1>>
    /\ sa.nM = 2
    /\ sa[op.k].strides = <<1, 0>>

(* ------------------------------ claim C3 -------------------------------- *)
\* the structural attributes of claim C3
StructuralArray == {"shape", "mask", "ndim", "nM", "device", "dtype"}
StructuralCube == StructuralArray \cup {"spinarray", "loc_", "loc"}

\* C3: an assignment to a structural attribute (shape, mask, ndim, nM,
\* device, dtype of a SpinArray, directly or through a SpinCube; spinarray,
\* loc_ or loc of a SpinCube) raises and leaves every attribute of the spin
\* array and of the cube as it was.
C3_StructuralAssignmentRejected ==
    /\ (op.name = "setattr" /\ op.k \in StructuralArray)
          => (err /\ sa = op.sa0 /\ cube = op.cube0)
    /\ (op.name = "cube_setattr" /\ op.k \in StructuralCube)
          => (err /\ sa = op.sa0 /\ cube = op.cube0)

\* nM was assigned through the cube
C3_Witness ==
    /\ op.name = "cube_setattr" /\ op.k = "nM" /\ err
    /\ sa.nM = 2 /\ cube.loc_.shape = <<2, 2, 3>>

(* ------------------------------ claim C4 -------------------------------- *)
\* C4: a write into the dense value of a compact attribute leaves the compact
\* store unchanged when the mask is not all-true; the dense value is a view
\* of the compact buffer (the write is visible in the compact attribute)
\* only when the mask is all-true and the compact buffer is contiguous.
C4_DenseWriteAliasesOnlyContiguous ==
    (op.name = "write" /\ ~err) =>
        LET k_ == op.k \o "_"
            allTrue == sa.nM = Prod(Tail(sa.shape))
            changed == sa[k_] # op.before
        IN  /\ ~allTrue => ~changed
            /\ changed => (allTrue /\ IsContiguous(op.before))
            /\ (allTrue /\ IsContiguous(op.before)) => changed

(* ------------------------------ claim C5 -------------------------------- *)
\* the spatial index lists of an indexing expression
SpatialLists(crds) == SubSeq(crds, 2, Len(ctor.shape))

\* the flat position (1-based) the n-th spatial multi-index addresses
AddressedPos(crds, n) ==
    Dot(IndexAt(SpatialLists(crds), n), ContigStrides(Tail(ctor.shape))) + 1

\* the statement of C5 for the call recorded in cr
CrdsTranslated ==
    /\ cr.c.ok
    /\ Len(cr.c.val) = 2 + Len(cr.crds) - Len(ctor.shape)
    /\ cr.c.val[1] = cr.crds[1]
    /\ cr.c.val[2] = [n \in 1..BroadcastLen(SpatialLists(cr.crds)) |->
                         Rank(ctor.mask, AddressedPos(cr.crds, n)) - 1]
    /\ DropFirst(cr.c.val, 2) = DropFirst(cr.crds, Len(ctor.shape))
    /\ cr.compact.ok
    /\ cr.compact.val = cr.dense.val

\* C5: for every indexing expression crds valid on the dense value v,
\* crds_(crds) has 2 + len(crds) - ndim entries: the batch index,
\* the compact spin indices of the addressed positions, the trailing indices;
\* and v_[crds_] == v[crds].
C5_CrdsTranslatesEveryExpression ==
    (cr # Idle /\ cr.dense.ok) => CrdsTranslated

(* ------------------------------ claim C6 -------------------------------- *)
\* C6: embed raises for every compact input whose two leading dimensions
\* are not (N, nM).
C6_EmbedRejectsMismatch ==
    (/\ emb.phase = "embed_arg"
     /\ SubSeq(emb.v_.shape, 1, 2) # <<ctor.shape[1], CountTrue(ctor.mask)>>)
        => ~emb.r.ok

(* ------------------------------ claim C7 -------------------------------- *)
\* rotation, then relaxation, of the batch v under the fields of time index t
RotateThenRelax(t, v) ==
    AsSeq([s \in 1..Len(v) |->
        LET up == beff2uphi(sim.Beff[s][t + 1], sim.g2pdt)
        IN  Relax(uphirot(up.u, up.phi, v[s]),
                  RelaxFactor(sim.T1), RelaxFactor(sim.T2))])

\* C7: blochsim applies the rotation-then-relaxation step once for each time
\* index, in the order 0, 1, ..., nT-1; the step for t takes the
\* magnetization the step for t-1 produced (the caller's M for t = 0), and
\* blochsim returns what the step for nT-1 produced.
C7_StepsInTimeOrder ==
    (sim # Idle) =>
        /\ \A i \in 1..Len(sim.hist) :
              /\ sim.hist[i].t = i - 1
              /\ sim.hist[i].in = IF i = 1 THEN sim.Min ELSE sim.hist[i - 1].out
              /\ sim.hist[i].out = RotateThenRelax(i - 1, sim.hist[i].in)
        /\ (sim.pc = "done") =>
              /\ Len(sim.hist) = sim.nT
              /\ sim.ret = IF sim.nT = 0 THEN sim.Min ELSE sim.hist[sim.nT].out

\* two steps that do not commute, with relaxation, on a batch of two of
\* which the second spin sees no field
C7_Witness ==
    /\ sim # Idle /\ sim.pc = "done" /\ sim.nT = 2
    /\ sim.Beff = <<(<<(<<1, 0, 0>>), (<<0, 0, 1>>)>>), (<<(<<0, 0, 0>>), (<<0, 0, 0>>)>>)>>
    /\ sim.T1 # None /\ sim.T2 # None
    /\ sim.ret = sim.hist[2].out
    /\ sim.ret[1] # sim.Min[1]

(* ------------------------------ claim C8 -------------------------------- *)
ZeroField ==
    \A s \in 1..Len(sim.Beff) : \A t \in 1..sim.nT : sim.Beff[s][t] = <<0, 0, 0>>

\* (E2^n·x, E2^n·y, 1 + E1^n·(z - 1))
DecayLaw(v, n, E1, E2) ==
    <<Mul(Pow(E2, n), v[1]), Mul(Pow(E2, n), v[2]),
      Num(1) + Mul(Pow(E1, n), v[3] - Num(1))>>

\* C8: with zero field at every step, blochsim over n steps maps (x, y, z)
\* to (E2^n·x, E2^n·y, 1 + E1^n·(z - 1)), and freeprec over the duration
\* n·dt with no off-resonance and the same T1, T2 (both given or both
\* absent) returns the same magnetization.
C8_ZeroFieldDecay ==
    (sim # Idle /\ sim.pc = "done" /\ ZeroField) =>
        /\ \A s \in 1..Len(sim.Min) :
              sim.ret[s] = DecayLaw(sim.Min[s], sim.nT,
                                    RelaxFactor(sim.T1), RelaxFactor(sim.T2))
        /\ (/\ sim.fp # None
            /\ sim.fp.Df \in {None, Some(0)}
            /\ (sim.T1 = None) = (sim.T2 = None))
              => (sim.fp.r.ok /\ sim.fp.r.val = sim.ret)

\* two steps of relaxation by 1/2 and 1/3 from a magnetization off
\* equilibrium, and freeprec over the two dwell times
C8_Witness ==
    /\ sim # Idle /\ sim.pc = "done" /\ ZeroField /\ sim.nT = 2
    /\ sim.T1 # None /\ sim.T2 # None
    /\ sim.Min[1] = <<Num(1), Num(2), Num(0 - 1)>>
    /\ sim.ret[1] # sim.Min[1]
    /\ sim.fp # None /\ sim.fp.Df = None /\ sim.fp.r.ok

(* ------------------------------ claim C9 -------------------------------- *)
\* C9: blochsim(M, Beff) equals blochsim_ab(M, A, B) when (A, B) is the
\* composition, in time-index order, of the per-step maps (rotation, then
\* relaxation) of the same fields.
C9_PropagatorAgrees ==
    (sim # Idle /\ sim.ab # None /\ sim.ab.order = "forward") =>
        sim.ab.val = sim.ret

\* two steps that do not commute, with relaxation, so that neither A is the
\* identity nor B zero
C9_Witness ==
    /\ sim # Idle /\ sim.ab # None /\ sim.ab.order = "forward"
    /\ sim.nT = 2
    /\ sim.Beff[1] = <<(<<1, 0, 0>>), (<<0, 0, 1>>)>>
    /\ sim.T1 # None /\ sim.T2 # None
    /\ sim.ab.A[1] # Identity3
    /\ sim.ab.B[1] # <<0, 0, 0>>
    /\ sim.ab.val = sim.ret

(* ------------------------------ claim C10 ------------------------------- *)
\* C10: freeprec with exactly one of T1, T2 given fails, with or without
\* Δf, and the caller's M is as it was; with both or neither it returns a
\* result.
C10_T1T2BothOrNeither ==
    (sim # Idle /\ sim.fp # None) =>
        /\ ((sim.T1 = None) # (sim.T2 = None))
              => (~sim.fp.r.ok /\ sim.fp.M = sim.Min)
        /\ ((sim.T1 = None) = (sim.T2 = None)) => sim.fp.r.ok

\* only T2 given, with off-resonance
C10_Witness ==
    /\ sim # Idle /\ sim.fp # None
    /\ sim.T1 = None /\ sim.T2 # None
    /\ sim.fp.Df = Some(1)
    /\ ~sim.fp.r.ok

(* ------------------------------ claim C11 ------------------------------- *)
\* the leading shape of Beff, of T1 or of T2 disagrees with that of M
InconsistentShapes ==
    LET N == Len(sim.Min)
    IN  \/ Len(sim.Beff) # N
        \/ (sim.T1 # None /\ sim.T1s \notin {<<>>, <<1>>, <<N>>})
        \/ (sim.T2 # None /\ sim.T2s \notin {<<>>, <<1>>, <<N>>})

\* C11: a call of blochsim whose M, Beff, T1, T2 disagree in their leading
\* shapes raises, and the caller's M is as it was when it does: the call
\* never returns and no element of the caller's M is ever written.
C11_ShapeMismatchRejectedEagerly ==
    (sim # Idle /\ InconsistentShapes) =>
        /\ sim.pc # "done"
        /\ sim.heap[1] = sim.Min

(* ------------------------------ claim C12 ------------------------------- *)
\* fov and ofst can be read per axis and per batch element of the cube
LocDefined ==
    /\ Len(cube.fov.shape) = 2 /\ Len(cube.ofst.shape) = 2
    /\ cube.fov.shape[2] >= XYZ /\ cube.ofst.shape[2] >= XYZ
    /\ cube.fov.shape[1] \in {1, sa.shape[1]}
    /\ cube.ofst.shape[1] \in {1, sa.shape[1]}

\* fov * normalized grid + ofst on axis i (0-based) for batch element b and
\* the j-th (0-based) masked-in spin
LocExpected(b, j, i) ==
    LET Nd == Tail(sa.shape)
        q  == Unravel(MaskedPositions(sa)[j + 1] - 1, Nd)[i + 1]
        f  == At(cube.fov, <<BRow(cube.fov, b), i>>)
    IN  (f * (q - (Nd[i + 1] \div 2))) \div Nd[i + 1]
            + At(cube.ofst, <<BRow(cube.ofst, b), i>>)

LocIsCurrent ==
    /\ LocDefined
    /\ cube.loc_.shape = ShapeM_(sa)
    /\ \A b \in 0..(sa.shape[1] - 1), j \in 0..(sa.nM - 1), i \in 0..(XYZ - 1) :
          At(cube.loc_, <<b, j, i>>) = LocExpected(b, j, i)

\* C12: whatever was assigned to the cube, loc_ is the buffer allocated at
\* construction and holds fov * normalized grid + ofst, per axis, batch
\* element and masked-in spin, for the fov and ofst the cube holds now.
C12_LocFollowsFovAndOfst ==
    cube # Idle => (cube.loc_.buf = "loc_" /\ LocIsCurrent)

StepsTaken ==
    {sim.hist[k] : k \in 1..Len(sim.hist)}
        \cup (IF sim.one = None THEN {} ELSE {sim.one.val})

Angle(h, s) == beff2uphi(h.b[s], sim.g2pdt).phi
Axis(h, s) == beff2uphi(h.b[s], sim.g2pdt).u

\* the step bound M1 to the buffer of M
Skipped(h) == h.m1 = h.m

\* the step bound M1 to a new buffer that holds the rotation of every spin
RotatedAll(h) ==
    /\ h.m1 > h.nbuf
    /\ \A s \in 1..Len(h.b) :
          h.rotated[s] = uphirot(Axis(h, s), Angle(h, s), h.in[s])

\* C14: a step of blochsim or blochsim_1step skips the rotation exactly when
\* the angle of every spin of the batch is 0; when some spin has a nonzero
\* angle, every spin of the batch is rotated into the new buffer, those with
\* angle 0 too.
C14_RotationSkippedIffAllZero ==
    sim # Idle =>
        \A h \in StepsTaken :
            /\ Skipped(h) <=> (\A s \in 1..Len(h.b) : Angle(h, s) = 0)
            /\ (\E s \in 1..Len(h.b) : Angle(h, s) # 0) => RotatedAll(h)

\* a pass of blochsim and a call of blochsim_1step in which one spin has a
\* nonzero angle and another has angle 0
MixedAngles(h) ==
    /\ \E s \in 1..Len(h.b) : Angle(h, s) # 0
    /\ \E s \in 1..Len(h.b) : Angle(h, s) = 0

C14_Witness ==
    /\ sim # Idle
    /\ \/ \E k \in 1..Len(sim.hist) :
             MixedAngles(sim.hist[k]) /\ RotatedAll(sim.hist[k])
       \/ (sim.one # None /\ MixedAngles(sim.one.val) /\ RotatedAll(sim.one.val))

(* ------------------------------ claim C15 ------------------------------- *)
\* C15: when blochsim_1step has returned, the result is in the buffer the
\* caller supplied as M1, the pair returned is (the caller's M1, the
\* caller's M), two distinct buffers, and no buffer was allocated.
C15_OneStepUsesCallersBuffer ==
    (sim # Idle /\ sim.pc = "stepped") =>
        LET h == sim.one.val
        IN  /\ sim.heap[h.scratch] = h.out
            /\ sim.M = h.scratch
            /\ sim.M1 = h.m
            /\ sim.M # sim.M1
            /\ Len(sim.heap) = h.nbuf

(* ------------------------------ claim C16 ------------------------------- *)
\* C16: SpinCube.pulse2beff called on a constructed cube returns: its call
\* of SpinArray.pulse2beff binds its parameters, passes the three
\* assertions, uses the cube's compact loc_ as the locations and embeds the
\* result exactly when doEmbed is true.
C16_CubePulse2BeffCompletes ==
    op.name = "pulse2beff" =>
        /\ ~err
        /\ op.r.locs = "self.loc_"
        /\ op.r.embedded = (op.doEmbed = "True")

====
